---- MODULE Spec2Model ----
(***************************************************************************)
(* MiniPy (src/MiniPy.py): a line-at-a-time interpreter made of a Lexer,   *)
(* a recursive-descent Parser, a tree-walking Interpreter and the REPL     *)
(* loop main().                                                            *)
(*                                                                         *)
(* Strings are sequences of one-character strings; Python's 0-based index  *)
(* i is element i + 1 of the sequence.  A raised exception is a result     *)
(* record whose err field holds str(e); err = NoErr means "returned".      *)
(***************************************************************************)
EXTENDS Integers, Sequences, FiniteSets

VARIABLES
    \* main(): the REPL loop
    pc,          \* "prompt" (about to call input()) or "done" (after break)
    variables,   \* variables of the object main's local `interpreter` names
    output,      \* lines written to standard output so far
    nlines,      \* number of lines read so far
    text,        \* main's local `text`: the line read last
    lastErr,     \* str(e) of the exception the last line raised, or NoErr
    lastVisits,  \* statements interpret() passed to visit() on the last line
    \* one Lexer driven token by token
    lexText, lexer, lexStatus, toks, eofCalls, eofPos,
    \* one expression / statement handed to fresh Parsers
    pAst, pSrc, pPhase, pExpr, pStmtSrc, pStmtSemi, pStmtNoSemi,
    \* one node handed to Interpreter.visit
    eNode, eBefore, ePhase, eRes

replVars  == <<pc, variables, output, nlines, text, lastErr, lastVisits>>
lexVars   == <<lexText, lexer, lexStatus, toks, eofCalls, eofPos>>
parseVars == <<pAst, pSrc, pPhase, pExpr, pStmtSrc, pStmtSemi, pStmtNoSemi>>
evalVars  == <<eNode, eBefore, ePhase, eRes>>
vars      == <<replVars, lexVars, parseVars, evalVars>>

----------------------------------------------------------------------------
(* Bounds of the model *)

MaxLines    == 2    \* lines read in one session
MaxLexemes  == 3    \* lexemes concatenated into one Lexer input
MaxEofCalls == 2    \* get_next_token calls that returned EOF
MaxOps      == 2    \* operators in an expression handed to the Parser
MaxEvalOps  == 1    \* operators in an expression handed to visit
FloatDigits == 16   \* fractional digits written for a float

----------------------------------------------------------------------------
(* Characters and Python's str predicates on them *)

None == "None"
NoErr == ""

Whitespace == {" "}
Letters == {"a", "e", "h", "i", "l", "n", "p", "r", "t", "x", "y"}
Digits == {"0", "1", "2", "3", "4", "5", "6", "7", "8", "9"}
DigitSeq == <<"0", "1", "2", "3", "4", "5", "6", "7", "8", "9">>

isspace(c) == c \in Whitespace
isalpha(c) == c \in Letters
isdigit(c) == c \in Digits
isalnum(c) == c \in Letters \cup Digits

DigitVal(c) == CHOOSE d \in 0..9 : DigitSeq[d + 1] = c

RECURSIVE int(_)
\* int(result) of a string of decimal digits
int(s) ==
    IF Len(s) = 0 THEN 0
    ELSE 10 * int(SubSeq(s, 1, Len(s) - 1)) + DigitVal(s[Len(s)])

RECURSIVE StrOfNat(_)
\* str(n) for n >= 0
StrOfNat(n) ==
    IF n < 10 THEN <<DigitSeq[n + 1]>>
    ELSE StrOfNat(n \div 10) \o <<DigitSeq[(n % 10) + 1]>>

RECURSIVE lstrip(_)
lstrip(s) == IF Len(s) > 0 /\ isspace(s[1]) THEN lstrip(Tail(s)) ELSE s

RECURSIVE rstrip(_)
rstrip(s) ==
    IF Len(s) > 0 /\ isspace(s[Len(s)]) THEN rstrip(SubSeq(s, 1, Len(s) - 1))
    ELSE s

strip(s) == rstrip(lstrip(s))

\* text[a:b] for 0 <= a <= b
Slice(s, a, b) == SubSeq(s, a + 1, IF b < Len(s) THEN b ELSE Len(s))

----------------------------------------------------------------------------
(* Token and Lexer *)

Token(type_, value) == [type |-> type_, value |-> value]

EOFToken == Token("EOF", None)

LexerAt(txt, pos) ==
    [text |-> txt, pos |-> pos,
     current_char |-> IF pos < Len(txt) THEN txt[pos + 1] ELSE None]

\* Lexer.__init__: text[0] raises IndexError on the empty string
Lexer(txt) ==
    IF Len(txt) = 0
    THEN [err |-> "string index out of range",
          lexer |-> [text |-> txt, pos |-> 0, current_char |-> None]]
    ELSE [err |-> NoErr,
          lexer |-> [text |-> txt, pos |-> 0, current_char |-> txt[1]]]

advance(lx) ==
    LET pos == lx.pos + 1 IN
    [text |-> lx.text, pos |-> pos,
     current_char |-> IF pos > Len(lx.text) - 1 THEN None
                      ELSE lx.text[pos + 1]]

\* a call of get_next_token that returns tok and leaves the lexer as lx
Returned(tok, lx) == [err |-> NoErr, tok |-> tok, lexer |-> lx]

RECURSIVE skip_whitespace(_)
skip_whitespace(lx) ==
    IF lx.current_char # None /\ isspace(lx.current_char)
    THEN skip_whitespace(advance(lx))
    ELSE lx

RECURSIVE variable_loop(_, _)
variable_loop(result, lx) ==
    IF lx.current_char # None /\ isalnum(lx.current_char)
    THEN variable_loop(result \o <<lx.current_char>>, advance(lx))
    ELSE Returned(Token("VARIABLE", result), lx)

variable(lx) == variable_loop(<<>>, lx)

RECURSIVE number_loop(_, _)
number_loop(result, lx) ==
    IF lx.current_char # None /\ isdigit(lx.current_char)
    THEN number_loop(result \o <<lx.current_char>>, advance(lx))
    ELSE Returned(Token("NUMBER", int(result)), lx)

number(lx) == number_loop(<<>>, lx)

RECURSIVE get_next_token(_)
get_next_token(lx) ==
    LET c == lx.current_char IN
    IF c = None THEN Returned(EOFToken, lx)
    ELSE IF isspace(c) THEN get_next_token(skip_whitespace(lx))
    ELSE IF isalpha(c) THEN variable(lx)
    ELSE IF isdigit(c) THEN number(lx)
    ELSE IF c = "+" THEN Returned(Token("PLUS", "+"), advance(lx))
    ELSE IF c = "-" THEN Returned(Token("MINUS", "-"), advance(lx))
    ELSE IF c = "*" THEN Returned(Token("MUL", "*"), advance(lx))
    ELSE IF c = "/" THEN Returned(Token("DIV", "/"), advance(lx))
    ELSE IF c = "=" THEN Returned(Token("EQ", "="), advance(lx))
    ELSE IF c = ";" THEN Returned(Token("SEMICOLON", ";"), advance(lx))
    ELSE IF c = "(" THEN Returned(Token("LPAREN", "("), advance(lx))
    ELSE IF c = ")" THEN Returned(Token("RPAREN", ")"), advance(lx))
    ELSE IF c = "p" /\ Slice(lx.text, lx.pos, lx.pos + 5)
                         = <<"p", "r", "i", "n", "t">>
         THEN Returned(Token("PRINT", "print"), LexerAt(lx.text, lx.pos + 5))
    ELSE [err |-> "Invalid character", tok |-> EOFToken, lexer |-> lx]

----------------------------------------------------------------------------
(* AST node classes; kind is type(node).__name__ *)

NumNode(value) == [kind |-> "Num", value |-> value]

VarNode(name) == [kind |-> "Var", name |-> name]

BinOpNode(left, op, right) ==
    [kind |-> "BinOp", left |-> left, op |-> op, right |-> right]

AssignNode(var, value) == [kind |-> "Assign", var |-> var, value |-> value]

PrintNode(e) == [kind |-> "Print", expr |-> e]

NoNode == [kind |-> "NoNode"]

----------------------------------------------------------------------------
(* Parser.  A parser p is [lexer, current_token]; every method returns     *)
(* [err, node, p], the parser being the one left after the call.  A method *)
(* is split at its calls: each part takes the result of the call before    *)
(* it and either passes the exception on or goes on with the method.       *)

ParserOf(lx, tok) == [lexer |-> lx, current_token |-> tok]

\* self.current_token = self.lexer.get_next_token(), r being the call
SetCurrentToken(p, r) ==
    [err |-> r.err,
     p |-> IF r.err = NoErr THEN ParserOf(r.lexer, r.tok) ELSE p]

\* Parser.__init__
Parser(lx) == SetCurrentToken(ParserOf(lx, EOFToken), get_next_token(lx))

eat(p, token_type) ==
    IF p.current_token.type = token_type
    THEN SetCurrentToken(p, get_next_token(p.lexer))
    ELSE [err |-> "Invalid syntax", p |-> p]

Raise(e, p) == [err |-> e, node |-> NoNode, p |-> p]

Return(node, p) == [err |-> NoErr, node |-> node, p |-> p]

\* self.eat(...) as e, then return node
EatThenReturn(e, node) ==
    IF e.err # NoErr THEN Raise(e.err, e.p) ELSE Return(node, e.p)

RECURSIVE factor(_), term(_), term_loop(_, _), expr(_), expr_loop(_, _)

\* factor() after node = self.expr()
factor_close(n) ==
    IF n.err # NoErr THEN n
    ELSE EatThenReturn(eat(n.p, "RPAREN"), n.node)

\* factor() after self.eat('LPAREN')
factor_open(e) ==
    IF e.err # NoErr THEN Raise(e.err, e.p) ELSE factor_close(expr(e.p))

factor(p) ==
    LET token == p.current_token IN
    IF token.type = "NUMBER"
    THEN EatThenReturn(eat(p, "NUMBER"), NumNode(token.value))
    ELSE IF token.type = "VARIABLE"
    THEN EatThenReturn(eat(p, "VARIABLE"), VarNode(token.value))
    ELSE IF token.type = "LPAREN"
    THEN factor_open(eat(p, "LPAREN"))
    ELSE Raise("Invalid syntax", p)

\* term(): node = BinOp(node, token, self.factor()), f being the factor
term_node(node, token, f) ==
    IF f.err # NoErr THEN f
    ELSE term_loop(BinOpNode(node, token, f.node), f.p)

\* term(): the body of the loop after self.eat(...)
term_body(node, token, e) ==
    IF e.err # NoErr THEN Raise(e.err, e.p)
    ELSE term_node(node, token, factor(e.p))

\* the while loop of term(), entered with the node built so far
term_loop(node, p) ==
    IF p.current_token.type \in {"MUL", "DIV"}
    THEN term_body(node, p.current_token, eat(p, p.current_token.type))
    ELSE Return(node, p)

\* term() after node = self.factor()
term_first(f) == IF f.err # NoErr THEN f ELSE term_loop(f.node, f.p)

term(p) == term_first(factor(p))

\* expr(): node = BinOp(node, token, self.term()), t being the term
expr_node(node, token, t) ==
    IF t.err # NoErr THEN t
    ELSE expr_loop(BinOpNode(node, token, t.node), t.p)

\* the body of expr()'s loop taking a factor, not a term, as right operand
expr_body_flat(node, token, e) ==
    IF e.err # NoErr THEN Raise(e.err, e.p)
    ELSE expr_node(node, token, factor(e.p))

\* expr(): the body of the loop after self.eat(...)
expr_body(node, token, e) ==
    IF e.err # NoErr THEN Raise(e.err, e.p)
    ELSE expr_node(node, token, term(e.p))

\* the while loop of expr(), entered with the node built so far
expr_loop(node, p) ==
    IF p.current_token.type \in {"PLUS", "MINUS"}
    THEN expr_body(node, p.current_token, eat(p, p.current_token.type))
    ELSE Return(node, p)

\* expr() after node = self.term()
expr_first(t) == IF t.err # NoErr THEN t ELSE expr_loop(t.node, t.p)

expr(p) == expr_first(term(p))

\* the end of a statement with eat('SEMICOLON') only before a semicolon
statement_end_lenient(e, node) ==
    IF e.err # NoErr THEN e
    ELSE IF e.p.current_token.type # "SEMICOLON" THEN Return(node, e.p)
    ELSE EatThenReturn(eat(e.p, "SEMICOLON"), node)

\* statement() after its expr(): self.eat('SEMICOLON'), then return node
statement_end(e, node) ==
    IF e.err # NoErr THEN e
    ELSE EatThenReturn(eat(e.p, "SEMICOLON"), node)

\* statement(), first branch, after value = self.expr()
assign_value(var, value) ==
    statement_end(value, AssignNode(var.value, value.node))

\* statement(), first branch, after self.eat('EQ')
assign_eq(var, e) ==
    IF e.err # NoErr THEN Raise(e.err, e.p) ELSE assign_value(var, expr(e.p))

\* statement(), first branch, after self.eat('VARIABLE')
assign_var(var, e) ==
    IF e.err # NoErr THEN Raise(e.err, e.p)
    ELSE assign_eq(var, eat(e.p, "EQ"))

\* statement(), second branch, after expr = self.expr()
print_expr(e) == statement_end(e, PrintNode(e.node))

\* statement(), second branch, after self.eat('PRINT')
print_kw(e) ==
    IF e.err # NoErr THEN Raise(e.err, e.p) ELSE print_expr(expr(e.p))

statement(p) ==
    IF p.current_token.type = "VARIABLE"
    THEN assign_var(p.current_token, eat(p, "VARIABLE"))
    ELSE IF p.current_token.type = "PRINT"
    THEN print_kw(eat(p, "PRINT"))
    ELSE Raise("Invalid syntax", p)

RECURSIVE parse_loop(_, _)

\* parse(): statements.append(self.statement()), s being the statement
parse_append(statements, s) ==
    IF s.err # NoErr THEN [err |-> s.err, tree |-> <<>>, p |-> s.p]
    ELSE parse_loop(Append(statements, s.node), s.p)

\* the while loop of parse(); returns [err, tree, p]
parse_loop(statements, p) ==
    IF p.current_token.type # "EOF"
    THEN parse_append(statements, statement(p))
    ELSE [err |-> NoErr, tree |-> statements, p |-> p]

parse(p) == parse_loop(<<>>, p)

----------------------------------------------------------------------------
(* Python numbers: an int is n (d = 1), a float is the rational n / d in   *)
(* lowest terms.  Floats are kept exact: rounding of binary64 is not       *)
(* modelled.                                                               *)

Abs(n) == IF n < 0 THEN -n ELSE n

RECURSIVE GCD(_, _)
GCD(a, b) == IF b = 0 THEN a ELSE GCD(b, a % b)

PyInt(n) == [k |-> "int", n |-> n, d |-> 1]

PyFloat(n, d) ==
    LET g == GCD(Abs(n), Abs(d))
        s == IF d < 0 THEN -1 ELSE 1 IN
    [k |-> "float", n |-> (s * n) \div g, d |-> (s * d) \div g]

PyNone == [k |-> "None", n |-> 0, d |-> 1]

BothInt(a, b) == a.k = "int" /\ b.k = "int"

PyAdd(a, b) ==
    IF BothInt(a, b) THEN PyInt(a.n + b.n)
    ELSE PyFloat(a.n * b.d + b.n * a.d, a.d * b.d)

PySub(a, b) ==
    IF BothInt(a, b) THEN PyInt(a.n - b.n)
    ELSE PyFloat(a.n * b.d - b.n * a.d, a.d * b.d)

PyMul(a, b) ==
    IF BothInt(a, b) THEN PyInt(a.n * b.n)
    ELSE PyFloat(a.n * b.n, a.d * b.d)

\* a / b for b # 0: true division, always a float
PyTrueDiv(a, b) == PyFloat(a.n * b.d, a.d * b.n)

ZeroDivisionMsg(a, b) ==
    IF BothInt(a, b) THEN "division by zero" ELSE "float division by zero"

RECURSIVE FracDigits(_, _, _)
\* the decimal digits of r / d, 0 <= r < d, at most left of them
FracDigits(r, d, left) ==
    IF r = 0 \/ left = 0 THEN <<>>
    ELSE <<DigitSeq[((10 * r) \div d) + 1]>>
         \o FracDigits((10 * r) % d, d, left - 1)

\* str(v) as print(v) writes it
PyStr(v) ==
    LET sign == IF v.n < 0 THEN <<"-">> ELSE <<>>
        whole == StrOfNat(Abs(v.n) \div v.d)
        frac == FracDigits(Abs(v.n) % v.d, v.d, FloatDigits) IN
    IF v.k = "None" THEN <<"N", "o", "n", "e">>
    ELSE IF v.k = "int" THEN sign \o whole
    ELSE sign \o whole \o <<".">> \o (IF frac = <<>> THEN <<"0">> ELSE frac)

----------------------------------------------------------------------------
(* Interpreter.  An interpreter it is [variables, out]: its dict and the   *)
(* lines it has printed.  Every visit method returns [err, value, it].     *)

EmptyDict == [name \in {} |-> PyNone]

\* Interpreter.__init__
Interpreter(out) == [variables |-> EmptyDict, out |-> out]

\* class Interpreter defines no method or attribute named `error`
InterpreterHasError == FALSE

AttributeErrorMsg == "'Interpreter' object has no attribute 'error'"

Raised(e, it) == [err |-> e, value |-> PyNone, it |-> it]

Value(v, it) == [err |-> NoErr, value |-> v, it |-> it]

PrintLine(chars) == [kind |-> "print", text |-> chars]

RECURSIVE visit(_, _)

visit_Num(node, it) == Value(PyInt(node.value), it)

\* self.variables.get(node.name, 0)
visit_Var(node, it) ==
    IF node.name \in DOMAIN it.variables
    THEN Value(it.variables[node.name], it)
    ELSE Value(PyInt(0), it)

\* visit_BinOp: the operator applied to the two visited operands
binop_apply(node, l, r) ==
    IF r.err # NoErr THEN r
    ELSE IF node.op.type = "PLUS" THEN Value(PyAdd(l.value, r.value), r.it)
    ELSE IF node.op.type = "MINUS" THEN Value(PySub(l.value, r.value), r.it)
    ELSE IF node.op.type = "MUL" THEN Value(PyMul(l.value, r.value), r.it)
    ELSE IF r.value.n = 0
         THEN Raised(ZeroDivisionMsg(l.value, r.value), r.it)
    ELSE Value(PyTrueDiv(l.value, r.value), r.it)

\* visit_BinOp after self.visit(node.left)
binop_right(node, l) ==
    IF l.err # NoErr THEN l
    ELSE binop_apply(node, l, visit(node.right, l.it))

visit_BinOp(node, it) ==
    IF node.op.type \in {"PLUS", "MINUS", "MUL", "DIV"}
    THEN binop_right(node, visit(node.left, it))
    ELSE Raised(AttributeErrorMsg, it)

\* self.variables[node.var] = v
assign_store(node, v) ==
    IF v.err # NoErr THEN v
    ELSE Value(PyNone,
               [variables |->
                    [name \in DOMAIN v.it.variables \cup {node.var} |->
                        IF name = node.var THEN v.value
                        ELSE v.it.variables[name]],
                out |-> v.it.out])

visit_Assign(node, it) == assign_store(node, visit(node.value, it))

\* print(result)
print_result(result) ==
    IF result.err # NoErr THEN result
    ELSE Value(PyNone,
               [variables |-> result.it.variables,
                out |-> Append(result.it.out, PrintLine(PyStr(result.value)))])

visit_Print(node, it) == print_result(visit(node.expr, it))

\* getattr(self, method_name, self.error) evaluates self.error before the
\* lookup, whatever the node is
visit(node, it) ==
    IF ~InterpreterHasError THEN Raised(AttributeErrorMsg, it)
    ELSE IF node.kind = "Num" THEN visit_Num(node, it)
    ELSE IF node.kind = "Var" THEN visit_Var(node, it)
    ELSE IF node.kind = "BinOp" THEN visit_BinOp(node, it)
    ELSE IF node.kind = "Assign" THEN visit_Assign(node, it)
    ELSE IF node.kind = "Print" THEN visit_Print(node, it)
    ELSE Raised(AttributeErrorMsg, it)

RECURSIVE interpret_loop(_, _, _)

\* interpret(): after self.visit(statement) of the n-th statement
interpret_visited(rest, r, n) ==
    IF r.err # NoErr THEN [err |-> r.err, it |-> r.it, visits |-> n]
    ELSE interpret_loop(rest, r.it, n)

\* the for loop of interpret(); n statements have been visited
interpret_loop(tree, it, n) ==
    IF tree = <<>> THEN [err |-> NoErr, it |-> it, visits |-> n]
    ELSE interpret_visited(Tail(tree), visit(Head(tree), it), n + 1)

RECURSIVE interpret_eager(_, _, _)

interpret_eager_visited(s, r, n) ==
    IF r.err # NoErr THEN [err |-> r.err, it |-> r.it, visits |-> n]
    ELSE interpret_eager(s.p, r.it, n)

interpret_eager_parsed(s, it, n) ==
    IF s.err # NoErr THEN [err |-> s.err, it |-> it, visits |-> n]
    ELSE interpret_eager_visited(s, visit(s.node, it), n + 1)

\* an interpret() that visits each statement as soon as it is parsed
interpret_eager(p, it, n) ==
    IF p.current_token.type = "EOF" THEN [err |-> NoErr, it |-> it, visits |-> n]
    ELSE interpret_eager_parsed(statement(p), it, n)

interpret_unparsed(p, it) == interpret_eager(p, it, 0)

\* interpret() after tree = self.parser.parse()
interpret_tree(tree, it) ==
    IF tree.err # NoErr THEN [err |-> tree.err, it |-> it, visits |-> 0]
    ELSE interpret_loop(tree.tree, it, 0)

\* Interpreter.interpret, self.parser being p
interpret(p, it) == interpret_tree(parse(p), it)

----------------------------------------------------------------------------
(* main(): one iteration of the REPL loop per line read *)

S_exit == <<"e", "x", "i", "t">>
S_help == <<"h", "e", "l", "p">>
S_print == <<"p", "r", "i", "n", "t">>
S_let == <<"l", "e", "t">>
S_x == <<"x">>
S_y == <<"y">>

WelcomeLine == [kind |-> "welcome", text |-> "Welcome to MiniPy!"]

\* print_help()
HelpLine == [kind |-> "help", text |-> "MiniPy Help:"]

\* print(f"Error: {e}")
ErrorLine(e) == [kind |-> "Error", text |-> e]

\* what a line leaves behind: the variables of the interpreter main holds,
\* the lines printed, and the exception that left the try block, if any
LineResult(e, vars_, out, visits) ==
    [err |-> e, variables |-> vars_, out |-> out, visits |-> visits]

\* line 280: interpreter.interpret() returned or raised r
run_interpreted(r) == LineResult(r.err, r.it.variables, r.it.out, r.visits)

\* lines 278-280, ps being Parser(lexer); a raise in it keeps the old
\* interpreter
run_parser(ps, vars_, out) ==
    IF ps.err # NoErr THEN LineResult(ps.err, vars_, out, 0)
    ELSE run_interpreted(interpret(ps.p, Interpreter(out)))

\* lines 277-280: the objects built for one line and the call of interpret;
\* vars_ are the variables of the interpreter main still holds
run_line(line, vars_, out) ==
    IF Lexer(line).err # NoErr
    THEN LineResult(Lexer(line).err, vars_, out, 0)
    ELSE run_parser(Parser(Lexer(line).lexer), vars_, out)

\* an exception that leaves main() because nothing catches it
uncaught_Exception(e, out) == [pc |-> "done", output |-> out]

\* except Exception as e: print(f"Error: {e}"), then the next iteration
except_Exception(e, out) ==
    [pc |-> "prompt", output |-> Append(out, ErrorLine(e))]

\* where the loop stands and what has been written after the try block
after_try(r) ==
    IF r.err = NoErr THEN [pc |-> "prompt", output |-> r.out]
    ELSE except_Exception(r.err, r.out)

main(line) ==
    /\ pc = "prompt"
    /\ nlines < MaxLines
    /\ nlines' = nlines + 1
    /\ text' = line
    /\ IF strip(line) = S_exit
       THEN /\ pc' = "done"
            /\ lastErr' = NoErr
            /\ lastVisits' = 0
            /\ UNCHANGED <<variables, output>>
       ELSE IF strip(line) = S_help
       THEN /\ output' = Append(output, HelpLine)
            /\ lastErr' = NoErr
            /\ lastVisits' = 0
            /\ UNCHANGED <<pc, variables>>
       ELSE LET r == run_line(line, variables, output) IN
            /\ variables' = r.variables
            /\ lastErr' = r.err
            /\ lastVisits' = r.visits
            /\ pc' = after_try(r).pc
            /\ output' = after_try(r).output
    /\ UNCHANGED <<lexVars, parseVars, evalVars>>

----------------------------------------------------------------------------
(* Expressions as trees, and their source text *)

PlusTok == Token("PLUS", "+")
MinusTok == Token("MINUS", "-")
MulTok == Token("MUL", "*")
DivTok == Token("DIV", "/")
OpTokens == {PlusTok, MinusTok, MulTok, DivTok}

RECURSIVE TreesWithOps(_, _)
\* the expression trees over atoms with exactly k operators
TreesWithOps(atoms, k) ==
    IF k = 0 THEN atoms
    ELSE UNION { { BinOpNode(l, op, r) :
                     l \in TreesWithOps(atoms, i),
                     op \in OpTokens,
                     r \in TreesWithOps(atoms, k - 1 - i) } : i \in 0..(k - 1) }

TreesUpTo(atoms, n) == UNION { TreesWithOps(atoms, k) : k \in 0..n }

\* precedence of an operator in the reference grammar
Prec(op) == IF op.type \in {"MUL", "DIV"} THEN 2 ELSE 1

Sep(style) == IF style = "spaced" THEN <<" ">> ELSE <<>>

RECURSIVE Render(_, _, _, _)
\* The text of tree t under the reference grammar, as the operand of an
\* operator of precedence ctx (0: none), right telling which operand.
\* "min" and "spaced" write only the parentheses the reference grammar
\* needs: around an operand that binds looser than its operator, and
\* around a right operand that binds equally.  "full" brackets every
\* operation.
Render(t, style, ctx, right) ==
    IF t.kind = "Num" THEN StrOfNat(t.value)
    ELSE IF t.kind = "Var" THEN t.name
    ELSE LET body == Render(t.left, style, Prec(t.op), FALSE)
                     \o Sep(style) \o <<t.op.value>> \o Sep(style)
                     \o Render(t.right, style, Prec(t.op), TRUE)
             bracket == \/ style = "full"
                        \/ Prec(t.op) < ctx
                        \/ (Prec(t.op) = ctx /\ right) IN
         IF bracket THEN <<"(">> \o body \o <<")">> ELSE body

Styles == {"min", "spaced", "full"}

----------------------------------------------------------------------------
(* The lines a session reads *)

LineTrees ==
    { NumNode(5), VarNode(S_x),
      BinOpNode(VarNode(S_x), PlusTok, NumNode(5)),
      BinOpNode(NumNode(10), DivTok,
                BinOpNode(NumNode(2), PlusTok, NumNode(3))),
      BinOpNode(NumNode(5), DivTok, NumNode(0)) }

WellFormedExprs == { Render(t, "spaced", 0, FALSE) : t \in LineTrees }

MalformedExprs == { <<>>, <<"$">>, <<"(", "5">> }

LineExprs == WellFormedExprs \cup MalformedExprs

AssignStmt(v, e) == v \o <<" ", "=", " ">> \o e \o <<";">>
LetStmt(v, e) == S_let \o <<" ">> \o v \o <<" ", "=", " ">> \o e \o <<";">>
PrintStmt(e) == S_print \o <<" ">> \o e \o <<";">>
PrintCall(e) == S_print \o <<"(">> \o e \o <<")", ";">>
NoSemiStmt(v, e) == v \o <<" ", "=", " ">> \o e
NoEqStmt(v, e) == v \o <<" ">> \o e \o <<";">>
NoVarStmt(e) == <<"=", " ">> \o e \o <<";">>

OneStmtLines ==
    UNION { { AssignStmt(S_x, e), AssignStmt(S_y, e), LetStmt(S_x, e),
              PrintStmt(e), PrintCall(e), NoSemiStmt(S_x, e),
              NoEqStmt(S_x, e), NoVarStmt(e), AssignStmt(S_let, e) } :
            e \in LineExprs }

FirstStmts == { AssignStmt(S_x, <<"5">>), NoSemiStmt(S_x, <<"5">>) }

TwoStmtLines ==
    { a \o <<" ">> \o b :
        a \in FirstStmts,
        b \in UNION { { AssignStmt(S_y, e), NoEqStmt(S_y, e), PrintStmt(e) } :
                      e \in LineExprs } }

CommandLines ==
    { S_exit, <<" ">> \o S_exit \o <<" ">>, S_help, S_help \o <<" ">>,
      <<>>, <<" ">>, <<"$">>, S_exit \o <<";">> }

Lines == OneStmtLines \cup TwoStmtLines \cup CommandLines

----------------------------------------------------------------------------
(* The session *)

Init ==
    /\ pc = "prompt"
    /\ variables = EmptyDict
    /\ output = <<WelcomeLine>>
    /\ nlines = 0
    /\ text = <<>>
    /\ lastErr = NoErr
    /\ lastVisits = 0
    /\ lexText = <<>> /\ lexer = LexerAt(<<>>, 0) /\ lexStatus = "idle"
    /\ toks = <<>> /\ eofCalls = 0 /\ eofPos = -1
    /\ pAst = NoNode /\ pSrc = <<>> /\ pPhase = "idle" /\ pExpr = NoNode
    /\ pStmtSrc = <<>> /\ pStmtSemi = NoNode /\ pStmtNoSemi = NoNode
    /\ eNode = NoNode /\ eBefore = Interpreter(<<>>) /\ ePhase = "idle"
    /\ eRes = NoNode

Next == \E line \in Lines : main(line)

Spec == Init /\ [][Next]_vars

----------------------------------------------------------------------------
(* One Lexer, driven one get_next_token call at a time *)

Lexemes ==
    { <<" ">>, S_x, <<"y", "1">>, <<"1", "2">>, <<"0">>, <<"+">>, <<"-">>,
      <<"*">>, <<"/">>, <<"=">>, <<";">>, <<"(">>, <<")">>, S_print, <<"$">> }

RECURSIVE Concats(_)
Concats(k) ==
    IF k = 0 THEN {<<>>}
    ELSE { a \o b : a \in Concats(k - 1), b \in Lexemes }

LexInputs == UNION { Concats(k) : k \in 0..MaxLexemes }

InitLex ==
    /\ lexText \in LexInputs
    /\ lexer = LexerAt(<<>>, 0)
    /\ lexStatus = "new"
    /\ toks = <<>>
    /\ eofCalls = 0
    /\ eofPos = -1
    /\ pc = "idle" /\ variables = EmptyDict /\ output = <<>> /\ nlines = 0
    /\ text = <<>> /\ lastErr = NoErr /\ lastVisits = 0
    /\ pAst = NoNode /\ pSrc = <<>> /\ pPhase = "idle" /\ pExpr = NoNode
    /\ pStmtSrc = <<>> /\ pStmtSemi = NoNode /\ pStmtNoSemi = NoNode
    /\ eNode = NoNode /\ eBefore = Interpreter(<<>>) /\ ePhase = "idle"
    /\ eRes = NoNode

\* lexer = Lexer(text); lexStatus becomes "ready" or str(e)
NewLexer ==
    /\ lexStatus = "new"
    /\ LET r == Lexer(lexText) IN
       /\ lexer' = r.lexer
       /\ lexStatus' = IF r.err = NoErr THEN "ready" ELSE r.err
    /\ UNCHANGED <<lexText, toks, eofCalls, eofPos>>
    /\ UNCHANGED <<replVars, parseVars, evalVars>>

\* one call lexer.get_next_token()
NextToken ==
    /\ lexStatus = "ready"
    /\ eofCalls < MaxEofCalls
    /\ LET r == get_next_token(lexer) IN
       IF r.err # NoErr
       THEN /\ lexStatus' = r.err
            /\ lexer' = r.lexer
            /\ UNCHANGED <<toks, eofCalls, eofPos>>
       ELSE /\ lexer' = r.lexer
            /\ toks' = Append(toks, r.tok)
            /\ eofCalls' = IF r.tok.type = "EOF" THEN eofCalls + 1 ELSE eofCalls
            /\ eofPos' = IF r.tok.type = "EOF" /\ eofPos = -1
                         THEN r.lexer.pos ELSE eofPos
            /\ UNCHANGED lexStatus
    /\ UNCHANGED lexText
    /\ UNCHANGED <<replVars, parseVars, evalVars>>

NextLex == NewLexer \/ NextToken

SpecLex == InitLex /\ [][NextLex]_vars

----------------------------------------------------------------------------
(* One expression, and one statement made of it, handed to fresh Parsers *)

ParseAtoms == { NumNode(13), VarNode(S_x) }

StmtHeads == { S_x \o <<"=">>, <<"y", "1", " ", "=", " ">>, S_print \o <<" ">> }

\* what a Parser method returned, and the token it stopped at
Parsed(r) == [err |-> r.err, node |-> r.node, next |-> r.p.current_token.type]

\* parser.expr(), ps being Parser(lexer)
expr_of(ps) ==
    IF ps.err # NoErr THEN Parsed(Raise(ps.err, ps.p)) ELSE Parsed(expr(ps.p))

\* parser.statement(), ps being Parser(lexer)
statement_of(ps) ==
    IF ps.err # NoErr THEN Parsed(Raise(ps.err, ps.p))
    ELSE Parsed(statement(ps.p))

\* Parser(Lexer(src)).expr() for a non-empty src
ParseExprOf(src) == expr_of(Parser(Lexer(src).lexer))

\* Parser(Lexer(src)).statement() for a non-empty src
ParseStatementOf(src) == statement_of(Parser(Lexer(src).lexer))

InitParse ==
    /\ pAst \in TreesUpTo(ParseAtoms, MaxOps)
    /\ \E style \in Styles : pSrc = Render(pAst, style, 0, FALSE)
    /\ pPhase = "input"
    /\ pExpr = NoNode
    /\ pStmtSrc = <<>> /\ pStmtSemi = NoNode /\ pStmtNoSemi = NoNode
    /\ pc = "idle" /\ variables = EmptyDict /\ output = <<>> /\ nlines = 0
    /\ text = <<>> /\ lastErr = NoErr /\ lastVisits = 0
    /\ lexText = <<>> /\ lexer = LexerAt(<<>>, 0) /\ lexStatus = "idle"
    /\ toks = <<>> /\ eofCalls = 0 /\ eofPos = -1
    /\ eNode = NoNode /\ eBefore = Interpreter(<<>>) /\ ePhase = "idle"
    /\ eRes = NoNode

ParseExpr ==
    /\ pPhase = "input"
    /\ pExpr' = ParseExprOf(pSrc)
    /\ pPhase' = "expr"
    /\ UNCHANGED <<pAst, pSrc, pStmtSrc, pStmtSemi, pStmtNoSemi>>
    /\ UNCHANGED <<replVars, lexVars, evalVars>>

\* the statement head pSrc, parsed with and without its trailing semicolon
ParseStatement(head) ==
    /\ pPhase = "expr"
    /\ pStmtSrc' = head \o pSrc
    /\ pStmtSemi' = ParseStatementOf(head \o pSrc \o <<";">>)
    /\ pStmtNoSemi' = ParseStatementOf(head \o pSrc)
    /\ pPhase' = "stmt"
    /\ UNCHANGED <<pAst, pSrc, pExpr>>
    /\ UNCHANGED <<replVars, lexVars, evalVars>>

NextParse == ParseExpr \/ (\E head \in StmtHeads : ParseStatement(head))

SpecParse == InitParse /\ [][NextParse]_vars

----------------------------------------------------------------------------
(* One node handed to Interpreter.visit *)

EvalAtoms == { NumNode(0), NumNode(5), VarNode(S_x) }

EvalExprs == TreesUpTo(EvalAtoms, MaxEvalOps)

EvalNodes ==
    EvalExprs
    \cup { AssignNode(v, e) : v \in {S_x, S_y}, e \in EvalExprs }
    \cup { PrintNode(e) : e \in EvalExprs }

EvalDicts ==
    { EmptyDict,
      [name \in {S_x} |-> PyInt(0)],
      [name \in {S_x} |-> PyInt(2)],
      [name \in {S_x, S_y} |-> IF name = S_x THEN PyInt(3) ELSE PyFloat(1, 2)] }

InitEval ==
    /\ eNode \in EvalNodes
    /\ \E d \in EvalDicts : eBefore = [variables |-> d, out |-> <<>>]
    /\ ePhase = "input"
    /\ eRes = NoNode
    /\ pc = "idle" /\ variables = EmptyDict /\ output = <<>> /\ nlines = 0
    /\ text = <<>> /\ lastErr = NoErr /\ lastVisits = 0
    /\ lexText = <<>> /\ lexer = LexerAt(<<>>, 0) /\ lexStatus = "idle"
    /\ toks = <<>> /\ eofCalls = 0 /\ eofPos = -1
    /\ pAst = NoNode /\ pSrc = <<>> /\ pPhase = "idle" /\ pExpr = NoNode
    /\ pStmtSrc = <<>> /\ pStmtSemi = NoNode /\ pStmtNoSemi = NoNode

\* interpreter.visit(node)
Visit ==
    /\ ePhase = "input"
    /\ eRes' = visit(eNode, eBefore)
    /\ ePhase' = "visited"
    /\ UNCHANGED <<eNode, eBefore>>
    /\ UNCHANGED <<replVars, lexVars, parseVars>>

NextEval == Visit

SpecEval == InitEval /\ [][NextEval]_vars

----------------------------------------------------------------------------
(* Properties of the session (Spec) *)

\* parser.parse() as [err, tree], ps being Parser(lexer)
parse_of(ps) ==
    IF ps.err # NoErr THEN [err |-> ps.err, tree |-> <<>>, p |-> ps.p]
    ELSE parse(ps.p)

\* Parser(Lexer(line)).parse() as [err, tree]
ParseLine(line) ==
    IF Lexer(line).err # NoErr THEN [err |-> Lexer(line).err, tree |-> <<>>]
    ELSE parse_of(Parser(Lexer(line).lexer))

IsCommand(line) == strip(line) \in {S_exit, S_help}

\* the names a line assigns to
AssignedNames(line) ==
    LET t == ParseLine(line).tree IN
    { t[i].var : i \in { j \in DOMAIN t : t[j].kind = "Assign" } }

\* the line just read is the single statement  v = <number>;
AssignsNumber(line) ==
    LET t == ParseLine(line).tree IN
    /\ ~IsCommand(line)
    /\ Len(t) = 1
    /\ t[1].kind = "Assign"
    /\ t[1].value.kind = "Num"

LineRead == nlines' = nlines + 1

\* C1: the Environment survives across lines: a line assigning a number to
\* a name leaves the name bound to that number, and a binding stays as it
\* is over every later line that does not assign to the name.
C1_EnvironmentSurvives ==
    [][ LineRead =>
          /\ AssignsNumber(text') =>
                LET a == ParseLine(text').tree[1] IN
                /\ a.var \in DOMAIN variables'
                /\ variables'[a.var] = PyInt(a.value.value)
          /\ \A v \in DOMAIN variables :
                v \notin AssignedNames(text') =>
                    /\ v \in DOMAIN variables'
                    /\ variables'[v] = variables[v] ]_vars

PrintLines ==
    UNION { { PrintStmt(e), PrintCall(e) } : e \in WellFormedExprs }

\* C2: a line `print e;` or `print(e);` with e well formed starts with a
\* PRINT token, is not rejected as a syntax error and writes one line.
C2_PrintAccepted ==
    (nlines > 0 /\ text \in PrintLines) =>
        /\ get_next_token(Lexer(text).lexer).tok.type = "PRINT"
        /\ lastErr # "Invalid syntax"
        /\ output[Len(output)].kind = "print"

LetLines == { LetStmt(S_x, e) : e \in WellFormedExprs }

\* C3: a line `let x = e;` with e well formed is accepted by the parser and
\* binds x.
C3_LetAccepted ==
    (nlines > 0 /\ text \in LetLines) =>
        /\ lastErr # "Invalid syntax"
        /\ S_x \in DOMAIN variables

\* the lines print statements have written
Printed(out) == SelectSeq(out, LAMBDA l : l.kind = "print")

\* the parse of the line fails on an unexpected token
Malformed(line) ==
    /\ ~IsCommand(line)
    /\ ParseLine(line).err = "Invalid syntax"

\* C6: a line with a malformed statement fails with the parser's error, no
\* statement of it is evaluated, and the Environment and the printed
\* output stay what they were (the loop adds only its Error line).
C6_MalformedLineHasNoEffect ==
    [][ (LineRead /\ Malformed(text')) =>
          /\ lastErr' = "Invalid syntax"
          /\ lastVisits' = 0
          /\ variables' = variables
          /\ Printed(output') = Printed(output)
          /\ output' = Append(output, ErrorLine("Invalid syntax")) ]_vars

\* a malformed statement after a well-formed one: x = 5; y 5;
C6_Witness ==
    /\ nlines > 0
    /\ text = AssignStmt(S_x, <<"5">>) \o <<" ">> \o NoEqStmt(S_y, <<"5">>)
    /\ lastErr = "Invalid syntax"
    /\ lastVisits = 0

\* the line raises while it is lexed, parsed or evaluated
Raises(line) ==
    /\ ~IsCommand(line)
    /\ run_line(line, variables, output).err # NoErr

\* C8: a line that raises makes the loop print one line Error: <str(e)> and
\* go back to the prompt; only the line exit ends the session.
C8_ErrorsAreNotFatal ==
    /\ [][ (LineRead /\ Raises(text')) =>
             /\ lastErr' # NoErr
             /\ output' = Append(output, ErrorLine(lastErr'))
             /\ pc' = "prompt" ]_vars
    /\ [](pc = "done" => strip(text) = S_exit)

\* the first line raised, was reported, and a second line was read
C8_Witness ==
    /\ nlines = 2
    /\ Len(output) >= 2
    /\ output[2].kind = "Error"
    /\ pc = "prompt"

----------------------------------------------------------------------------
(* Properties of the Lexer (SpecLex) *)

LexableChars ==
    Whitespace \cup Letters \cup Digits
    \cup {"+", "-", "*", "/", "=", ";", "(", ")"}

OnlyLexable(s) == \A i \in 1..Len(s) : s[i] \in LexableChars

\* C7: on a source of lexable characters, the empty and the all-blank ones
\* included, the Lexer is built and every call returns a token; once a call
\* has returned EOF, every later one returns EOF and leaves the cursor.
C7_LexerEndsWithEOF ==
    (lexStatus # "idle" /\ OnlyLexable(lexText)) =>
        /\ lexStatus \in {"new", "ready"}
        /\ \A i, j \in DOMAIN toks :
              (i < j /\ toks[i].type = "EOF") => toks[j].type = "EOF"
        /\ eofPos # -1 => lexer.pos = eofPos

----------------------------------------------------------------------------
(* Properties of the Parser (SpecParse) *)

\* C4 as stated: a statement that parses with its trailing semicolon parses
\* to the same node without it.
C4_SemicolonOptional ==
    (pPhase = "stmt" /\ pStmtSemi.err = NoErr) =>
        /\ pStmtNoSemi.err = NoErr
        /\ pStmtNoSemi.node = pStmtSemi.node

\* C4 amended: a statement that parses with its trailing semicolon is
\* rejected with Invalid syntax, at the end of input, without it.
C4_SemicolonRequired ==
    (pPhase = "stmt" /\ pStmtSemi.err = NoErr) =>
        /\ pStmtNoSemi.err = "Invalid syntax"
        /\ pStmtNoSemi.next = "EOF"

C4_Witness ==
    /\ pPhase = "stmt"
    /\ pStmtSemi.err = NoErr
    /\ pStmtSemi.node.kind = "Assign"
    /\ pStmtNoSemi.err = "Invalid syntax"

\* C9: Parser.expr returns, for the text the reference grammar gives a tree
\* (with the needed, or with all, parentheses), that same tree, and stops at
\* the end of the text.
C9_ExprMatchesReference ==
    pPhase \in {"expr", "stmt"} =>
        pExpr = [err |-> NoErr, node |-> pAst, next |-> "EOF"]

\* x+13*x parsed as BinOp(x, +, BinOp(13, *, x))
C9_Witness ==
    /\ pPhase = "expr"
    /\ pSrc = <<"x", "+", "1", "3", "*", "x">>
    /\ pExpr.err = NoErr
    /\ pExpr.node = BinOpNode(VarNode(S_x), PlusTok,
                              BinOpNode(NumNode(13), MulTok, VarNode(S_x)))

----------------------------------------------------------------------------
(* Properties of Interpreter.visit (SpecEval) *)

\* the operand is a number or a name whose value is zero
IsZeroOperand(node, it) ==
    \/ node.kind = "Num" /\ visit_Num(node, it).value.n = 0
    \/ node.kind = "Var" /\ visit_Var(node, it).value.n = 0

\* C5: visiting BinOp(l, /, r) with r zero raises a division-by-zero error
\* and neither prints nor binds.
C5_DivisionByZeroRaised ==
    ( /\ ePhase = "visited"
      /\ eNode.kind = "BinOp"
      /\ eNode.op.type = "DIV"
      /\ IsZeroOperand(eNode.right, eBefore) ) =>
        /\ eRes.err \in {"division by zero", "float division by zero"}
        /\ eRes.it = eBefore

\* C10: visiting Assign(name, value) binds name and keeps every other
\* binding; visiting any other node keeps the whole Environment.
C10_OnlyAssignMutates ==
    ePhase = "visited" =>
        IF eNode.kind = "Assign"
        THEN /\ eRes.err = NoErr
             /\ DOMAIN eRes.it.variables
                    = DOMAIN eBefore.variables \cup {eNode.var}
             /\ eNode.value.kind = "Num" =>
                    eRes.it.variables[eNode.var] = PyInt(eNode.value.value)
             /\ \A v \in DOMAIN eBefore.variables \ {eNode.var} :
                    eRes.it.variables[v] = eBefore.variables[v]
        ELSE eRes.it.variables = eBefore.variables

====
